---- MODULE Spec2Model ----
(***************************************************************************)
(* The analyze controller of sabre (lib/controllers/analyze.js): one run   *)
(* of the pipeline  read file -> detect version -> load solc -> resolve    *)
(* imports -> compile -> authenticate -> submit -> poll -> get report ->   *)
(* format issues -> print.  Every collaborator call (compiler, Profiler,   *)
(* client, report) either returns a value or throws; the choice is made    *)
(* by the environment.  A call that the controller awaits is two steps,    *)
(* the invocation and the settlement of its promise.                       *)
(***************************************************************************)
EXTENDS Integers, Sequences, FiniteSets, TLC

(* ------------------------------ bounds -------------------------------- *)
MaxVersion == 2     \* number of distinct solidity versions a pragma may resolve to
MaxImports == 1     \* number of imported files besides the entry file
MaxUuid    == 2     \* number of distinct job UUIDs the service may issue
MaxIssues  == 2     \* length of the longest raw issue list the service returns
MaxKey     == 2     \* number of distinct rule identifiers of an issue
MaxRaw     == 3     \* length of the longest raw issue list given to the reducer alone
MaxCallers == 3     \* number of concurrent callers of the toolchain cache

(* --------------------------- program constants ------------------------ *)
modes == {"quick", "full"}

(* Variant of formats that also accepts "xml". *)
formatsLenient == {"text", "stylish", "compact", "table", "html", "json", "xml"}

formats == {"text", "stylish", "compact", "table", "html", "json"}

TrialAddress == "0x0000000000000000000000000000000000000000"

TrialPassword == "trial"

(* Inputs the command line and the environment may carry. *)
ArgModes == modes \cup {"deep"}

ArgFormats == formats \cup {"xml"}

EnvAddresses == {"", "0xabc"}

EnvPasswords == {"", "secret"}

Versions == 1 .. MaxVersion

Uuids == 1 .. MaxUuid

Keys == 1 .. MaxKey

EntryFile == 0

(* The source lists dependency resolution may return: the entry file      *)
(* followed by its imports in discovery order.                            *)
SourceLists == { [i \in 1 .. (n + 1) |-> EntryFile + i - 1] : n \in 0 .. MaxImports }

Messages == {"a", "b"}

Locations == {1, 2}

(* A raw issue carries its rule identifier, its message and its primary   *)
(* source location, which together are its identity, and pass, its place   *)
(* in the list the service returned.                                       *)
IssueKinds == [rule : Keys, message : Messages, location : Locations]

Numbered(f) ==
    [i \in DOMAIN f |-> [rule |-> f[i].rule, message |-> f[i].message,
                         location |-> f[i].location, pass |-> i]]

(* The rule identifiers of the issues the service returns in a run. *)
RunRules == {1, 2}

(* Raw issue lists the service may return in a run: they differ in their   *)
(* rules only.                                                             *)
IssueLists ==
    UNION { { Numbered([i \in 1 .. n |-> [rule |-> f[i], message |-> "a",
                                          location |-> 1]]) :
              f \in [1 .. n -> RunRules] } : n \in 0 .. MaxIssues }

(* Raw issue lists given to the reducer alone. *)
RawIssueLists ==
    UNION { { Numbered(f) : f \in [1 .. n -> IssueKinds] } : n \in 0 .. MaxRaw }

(* The stage operations the controller invokes, in source order. *)
StageOps == << "getSolidityVersion", "loadSolcVersion", "resolveAllSources",
               "getCompiledContracts", "authenticate", "submitDataForAnalysis",
               "awaitAnalysisFinish", "getReport", "formatIssues" >>

RemoteOps == {"authenticate", "submit", "status", "results"}

Callers == 1 .. MaxCallers

(* The toolchain cache: per version the snapshot stored (-1 = none, 0 = a  *)
(* snapshot stored by an earlier process, n > 0 = the snapshot of the n-th *)
(* download of this process), the downloads in flight, started and failed; *)
(* per caller its progress, the version it asked for and what it received. *)
IdleCaller == [at |-> "idle", v |-> 0, got |-> -1, fromCache |-> FALSE]

EmptyCache ==
    [store |-> [v \in Versions |-> -1],
     inflight |-> [v \in Versions |-> 0],
     started |-> [v \in Versions |-> 0],
     failed |-> [v \in Versions |-> 0],
     serial |-> 0,
     caller |-> [c \in Callers |-> IdleCaller]]

NoData == [built |-> FALSE, sourceList |-> << >>, mode |-> "", sources |-> << >>,
           hashes |-> FALSE]

VARIABLES
    args,           \* [mode, format, debug]: the parsed command line
    ethAddress,     \* let { ethAddress, password } = env
    password,
    pc,             \* position of the controller
    err,            \* the stage whose failure was thrown ("" when none)
    calls,          \* stage operations invoked so far, in order
    active,         \* operations invoked whose promise has not settled
    remote,         \* remote-service operations issued so far
    fileRead,       \* the entry file has been read
    version,        \* 0 = undefined
    loadArg,        \* the release handed to loadSolcVersion (0 = none)
    solcSnapshot,   \* the snapshot loadSolcVersion returned (0 = none)
    resolveArg,     \* the snapshot handed to resolveAllSources
    compileArg,     \* the snapshot handed to getCompiledContracts
    sourceList,     \* Object.keys(resolvedSources)
    input,          \* compiler.getSolcInput(allSources): its sources
    compiledData,   \* TRUE once getCompiledContracts has returned
    authArg,        \* the credentials handed to client.initialize
    data,           \* the request data
    submitted,      \* the request data handed to submitDataForAnalysis
    uuid,           \* the job UUID submit returned (0 = none)
    initialDelay,
    timeout,
    pollArg,        \* <<uuid, initialDelay, timeout>> handed to awaitAnalysisFinish
    elapsed,        \* time since the poll began, in ms
    lastStatus,     \* the last status the service reported
    reportArg,      \* the UUID handed to getReport (0 = none)
    issues,         \* the raw issue list getReport returned
    uniqueIssues,   \* report.formatIssues(data, issues)
    formatted,      \* <<format, issues>> of each application of a formatter
    output,         \* what was written to the console, in order
    exitCode,       \* "running", "returned", "exit-1", "exit1"
    cache,          \* the toolchain cache and its callers (section 4.2)
    \* a second run of the controller, for comparing two runs
    args2, ethAddress2, password2, pc2, err2,
    calls2, active2, remote2, fileRead2, version2,
    loadArg2, solcSnapshot2, resolveArg2, compileArg2, sourceList2,
    input2, compiledData2, authArg2, data2, submitted2,
    uuid2, initialDelay2, timeout2, pollArg2, elapsed2,
    lastStatus2, reportArg2, issues2, uniqueIssues2, formatted2,
    output2, exitCode2

twinV == << args2, ethAddress2, password2, pc2, err2,
           calls2, active2, remote2, fileRead2, version2,
           loadArg2, solcSnapshot2, resolveArg2, compileArg2, sourceList2,
           input2, compiledData2, authArg2, data2, submitted2,
           uuid2, initialDelay2, timeout2, pollArg2, elapsed2,
           lastStatus2, reportArg2, issues2, uniqueIssues2, formatted2,
           output2, exitCode2 >>

vars == << args, ethAddress, password, pc, err, calls, active, remote, fileRead,
           version, loadArg, solcSnapshot, resolveArg, compileArg, sourceList,
           input, compiledData, authArg, data, submitted, uuid, initialDelay,
           timeout, pollArg, elapsed, lastStatus, reportArg, issues,
           uniqueIssues, formatted, output, exitCode, cache, twinV >>

(* The controller at its entry, with the command line and the          *)
(* environment it was started with.                                        *)
Start ==
    /\ args \in [mode : ArgModes, format : ArgFormats, debug : BOOLEAN]
    /\ ethAddress \in EnvAddresses
    /\ password \in EnvPasswords
    /\ pc = "checkMode"
    /\ err = ""
    /\ calls = << >>
    /\ active = {}
    /\ remote = {}
    /\ fileRead = FALSE
    /\ version = 0
    /\ loadArg = 0
    /\ solcSnapshot = 0
    /\ resolveArg = 0
    /\ compileArg = 0
    /\ sourceList = << >>
    /\ input = << >>
    /\ compiledData = FALSE
    /\ authArg = << >>
    /\ data = NoData
    /\ submitted = NoData
    /\ uuid = 0
    /\ initialDelay = 0
    /\ timeout = 0
    /\ pollArg = << >>
    /\ elapsed = 0
    /\ lastStatus = ""
    /\ reportArg = 0
    /\ issues = << >>
    /\ uniqueIssues = << >>
    /\ formatted = << >>
    /\ output = << >>
    /\ exitCode = "running"

(* The same for the second run. *)
Start2 ==
    /\ args2 \in [mode : ArgModes, format : ArgFormats, debug : BOOLEAN]
    /\ ethAddress2 \in EnvAddresses
    /\ password2 \in EnvPasswords
    /\ pc2 = "checkMode"
    /\ err2 = ""
    /\ calls2 = << >>
    /\ active2 = {}
    /\ remote2 = {}
    /\ fileRead2 = FALSE
    /\ version2 = 0
    /\ loadArg2 = 0
    /\ solcSnapshot2 = 0
    /\ resolveArg2 = 0
    /\ compileArg2 = 0
    /\ sourceList2 = << >>
    /\ input2 = << >>
    /\ compiledData2 = FALSE
    /\ authArg2 = << >>
    /\ data2 = NoData
    /\ submitted2 = NoData
    /\ uuid2 = 0
    /\ initialDelay2 = 0
    /\ timeout2 = 0
    /\ pollArg2 = << >>
    /\ elapsed2 = 0
    /\ lastStatus2 = ""
    /\ reportArg2 = 0
    /\ issues2 = << >>
    /\ uniqueIssues2 = << >>
    /\ formatted2 = << >>
    /\ output2 = << >>
    /\ exitCode2 = "running"

(* The second run, not started. *)
Parked2 ==
    /\ Start2
    /\ args2 = [mode |-> "quick", format |-> "json", debug |-> FALSE]
    /\ ethAddress2 = ""
    /\ password2 = ""

Init ==
    /\ Start
    /\ cache = EmptyCache
    /\ Parked2

(* ------------------------ helpers of the actions ---------------------- *)
credsV == << ethAddress, password >>

buildV == << fileRead, version, loadArg, solcSnapshot, resolveArg, compileArg,
             sourceList, input, compiledData >>

sessV == << authArg, data, submitted, uuid >>

pollV == << initialDelay, timeout, pollArg, elapsed, lastStatus >>

repV == << reportArg, issues, uniqueIssues, formatted >>

outV == << output, exitCode >>

(* releases[version]: the release table maps a version to its release. *)
releases == [v \in Versions |-> 100 + v]

(* A call is made: it is logged and, until it settles, in progress. *)
Invoke(op) ==
    /\ calls' = Append(calls, op)
    /\ active' = active \cup {op}

(* An exception leaves the try block: control moves to the catch clause. *)
Throw(stage) ==
    /\ pc' = "catch"
    /\ err' = stage

(* Variant of CheckMode that prints the message and goes on. *)
CheckModeNoExit ==
    /\ pc = "checkMode"
    /\ IF args.mode \notin modes
          THEN /\ output' = Append(output, "InvalidMode")
               /\ exitCode' = exitCode
               /\ pc' = "checkFormat"
          ELSE /\ pc' = "checkFormat"
               /\ UNCHANGED outV
    /\ UNCHANGED << args, cache, credsV, err, calls, active, remote, buildV, sessV,
                    pollV, repV >>

(* if (!modes.includes(args.mode)) { console.log(...); process.exit(-1) } *)
CheckMode ==
    /\ pc = "checkMode"
    /\ IF args.mode \notin modes
          THEN /\ output' = Append(output, "InvalidMode")
               /\ exitCode' = "exit-1"
               /\ pc' = "exited"
          ELSE /\ pc' = "checkFormat"
               /\ UNCHANGED outV
    /\ UNCHANGED << args, cache, credsV, err, calls, active, remote, buildV, sessV,
                    pollV, repV >>

(* if (!formats.includes(args.format)) { console.log(...); process.exit(-1) } *)
CheckFormat ==
    /\ pc = "checkFormat"
    /\ IF args.format \notin formats
          THEN /\ output' = Append(output, "InvalidFormat")
               /\ exitCode' = "exit-1"
               /\ pc' = "exited"
          ELSE /\ pc' = "setup"
               /\ UNCHANGED outV
    /\ UNCHANGED << args, cache, credsV, err, calls, active, remote, buildV, sessV,
                    pollV, repV >>

(* Variant of Setup that replaces only the credential that is missing. *)
SetupFieldwise ==
    /\ pc = "setup"
    /\ ethAddress' = IF ethAddress = "" THEN TrialAddress ELSE ethAddress
    /\ password' = IF password = "" THEN TrialPassword ELSE password
    /\ pc' = "readFile"
    /\ UNCHANGED << args, cache, err, calls, active, remote, buildV, sessV, pollV,
                    repV, outV >>

(* Path resolution, the trial credentials, the resolver and the spinner. *)
Setup ==
    /\ pc = "setup"
    /\ IF ~(ethAddress # "" /\ password # "")
          THEN /\ ethAddress' = TrialAddress
               /\ password' = TrialPassword
          ELSE UNCHANGED credsV
    /\ pc' = "readFile"
    /\ UNCHANGED << args, cache, err, calls, active, remote, buildV, sessV, pollV,
                    repV, outV >>

(* const solidityCode = fs.readFileSync(solidityFilePath, 'utf8') *)
ReadFile ==
    /\ pc = "readFile"
    /\ \/ /\ fileRead' = TRUE
          /\ pc' = "getSolidityVersion"
          /\ err' = err
       \/ /\ fileRead' = fileRead
          /\ Throw("readFile")
    /\ UNCHANGED << args, cache, credsV, calls, active, remote, version, loadArg,
                    solcSnapshot, resolveArg, compileArg, sourceList, input,
                    compiledData, sessV, pollV, repV, outV >>

(* Variant of GetSolidityVersionReturn that swallows the failure and goes  *)
(* on with a default version.                                              *)
GetSolidityVersionReturnSwallow ==
    /\ pc = "getSolidityVersion_wait"
    /\ active' = active \ {"getSolidityVersion"}
    /\ \/ \E v \in Versions :
             /\ version' = v
             /\ pc' = "loadSolcVersion"
             /\ err' = err
       \/ /\ version' = 1
          /\ pc' = "loadSolcVersion"
          /\ err' = "getSolidityVersion"
    /\ UNCHANGED << args, cache, credsV, calls, remote, fileRead, loadArg, solcSnapshot,
                    resolveArg, compileArg, sourceList, input, compiledData,
                    sessV, pollV, repV, outV >>

(* const version = compiler.getSolidityVersion(solidityCode) *)
GetSolidityVersionCall ==
    /\ pc = "getSolidityVersion"
    /\ Invoke("getSolidityVersion")
    /\ pc' = "getSolidityVersion_wait"
    /\ UNCHANGED << args, cache, credsV, err, remote, buildV, sessV, pollV, repV, outV >>

GetSolidityVersionReturn ==
    /\ pc = "getSolidityVersion_wait"
    /\ active' = active \ {"getSolidityVersion"}
    /\ \/ \E v \in Versions :
             /\ version' = v
             /\ pc' = "loadSolcVersion"
             /\ err' = err
       \/ /\ version' = version
          /\ Throw("getSolidityVersion")
    /\ UNCHANGED << args, cache, credsV, calls, remote, fileRead, loadArg, solcSnapshot,
                    resolveArg, compileArg, sourceList, input, compiledData,
                    sessV, pollV, repV, outV >>

(* Variant of LoadSolcVersionCall that hands the version itself, not its  *)
(* release, to loadSolcVersion.                                            *)
LoadSolcVersionCallRawVersion ==
    /\ pc = "loadSolcVersion"
    /\ Invoke("loadSolcVersion")
    /\ loadArg' = version
    /\ pc' = "loadSolcVersion_wait"
    /\ UNCHANGED << args, cache, credsV, err, remote, fileRead, version, solcSnapshot,
                    resolveArg, compileArg, sourceList, input, compiledData,
                    sessV, pollV, repV, outV >>

(* await compiler.loadSolcVersion(releases[version]) *)
LoadSolcVersionCall ==
    /\ pc = "loadSolcVersion"
    /\ Invoke("loadSolcVersion")
    /\ loadArg' = releases[version]
    /\ pc' = "loadSolcVersion_wait"
    /\ UNCHANGED << args, cache, credsV, err, remote, fileRead, version, solcSnapshot,
                    resolveArg, compileArg, sourceList, input, compiledData,
                    sessV, pollV, repV, outV >>

(* The snapshot returned is the one of the release asked for, from the     *)
(* cache or downloaded (fromCache only selects the spinner's text).       *)
LoadSolcVersionReturn ==
    /\ pc = "loadSolcVersion_wait"
    /\ active' = active \ {"loadSolcVersion"}
    /\ \/ \E fromCache \in BOOLEAN :
             /\ solcSnapshot' = loadArg
             /\ pc' = "resolveAllSources"
             /\ err' = err
       \/ /\ solcSnapshot' = solcSnapshot
          /\ Throw("loadSolcVersion")
    /\ UNCHANGED << args, cache, credsV, calls, remote, fileRead, version, loadArg,
                    resolveArg, compileArg, sourceList, input, compiledData,
                    sessV, pollV, repV, outV >>

(* await Profiler.resolveAllSources(resolver, [solidityFilePath], solcSnapshot) *)
ResolveAllSourcesCall ==
    /\ pc = "resolveAllSources"
    /\ Invoke("resolveAllSources")
    /\ resolveArg' = solcSnapshot
    /\ pc' = "resolveAllSources_wait"
    /\ UNCHANGED << args, cache, credsV, err, remote, fileRead, version, loadArg,
                    solcSnapshot, compileArg, sourceList, input, compiledData,
                    sessV, pollV, repV, outV >>

(* const sourceList = Object.keys(resolvedSources) *)
ResolveAllSourcesReturn ==
    /\ pc = "resolveAllSources_wait"
    /\ active' = active \ {"resolveAllSources"}
    /\ \/ \E l \in SourceLists :
             /\ sourceList' = l
             /\ pc' = "getSolcInput"
             /\ err' = err
       \/ /\ sourceList' = sourceList
          /\ Throw("resolveAllSources")
    /\ UNCHANGED << args, cache, credsV, calls, remote, fileRead, version, loadArg,
                    solcSnapshot, resolveArg, compileArg, input, compiledData,
                    sessV, pollV, repV, outV >>

(* allSources[file] = { content: ... }; input = compiler.getSolcInput(allSources) *)
GetSolcInput ==
    /\ pc = "getSolcInput"
    /\ \/ /\ input' = sourceList
          /\ pc' = "getCompiledContracts"
          /\ err' = err
       \/ /\ input' = input
          /\ Throw("getSolcInput")
    /\ UNCHANGED << args, cache, credsV, calls, active, remote, fileRead, version,
                    loadArg, solcSnapshot, resolveArg, compileArg, sourceList,
                    compiledData, sessV, pollV, repV, outV >>

(* Variant of GetCompiledContractsReturn that goes on with the partial     *)
(* artifact of a failed compilation.                                       *)
GetCompiledContractsReturnPartial ==
    /\ pc = "getCompiledContracts_wait"
    /\ active' = active \ {"getCompiledContracts"}
    /\ \/ /\ compiledData' = TRUE
          /\ pc' = "initialize"
          /\ err' = err
       \/ /\ compiledData' = compiledData
          /\ pc' = "initialize"
          /\ err' = "getCompiledContracts"
    /\ UNCHANGED << args, cache, credsV, calls, remote, fileRead, version, loadArg,
                    solcSnapshot, resolveArg, compileArg, sourceList, input,
                    sessV, pollV, repV, outV >>

(* compiler.getCompiledContracts(input, solcSnapshot, solidityFilePath, args._[1]) *)
GetCompiledContractsCall ==
    /\ pc = "getCompiledContracts"
    /\ Invoke("getCompiledContracts")
    /\ compileArg' = solcSnapshot
    /\ pc' = "getCompiledContracts_wait"
    /\ UNCHANGED << args, cache, credsV, err, remote, fileRead, version, loadArg,
                    solcSnapshot, resolveArg, sourceList, input, compiledData,
                    sessV, pollV, repV, outV >>

GetCompiledContractsReturn ==
    /\ pc = "getCompiledContracts_wait"
    /\ active' = active \ {"getCompiledContracts"}
    /\ \/ /\ compiledData' = TRUE
          /\ pc' = "initialize"
          /\ err' = err
       \/ /\ compiledData' = compiledData
          /\ Throw("getCompiledContracts")
    /\ UNCHANGED << args, cache, credsV, calls, remote, fileRead, version, loadArg,
                    solcSnapshot, resolveArg, compileArg, sourceList, input,
                    sessV, pollV, repV, outV >>


(* const mxClient = client.initialize(apiUrl, ethAddress, password) *)
Initialize ==
    /\ pc = "initialize"
    /\ \/ /\ authArg' = << ethAddress, password >>
          /\ pc' = "authenticate"
          /\ err' = err
       \/ /\ authArg' = authArg
          /\ Throw("initialize")
    /\ UNCHANGED << args, cache, credsV, calls, active, remote, buildV, data,
                    submitted, uuid, pollV, repV, outV >>

(* Variant of AuthenticateCall without the await: the controller goes on  *)
(* while the authentication is still in progress.                          *)
AuthenticateCallNoAwait ==
    /\ pc = "authenticate"
    /\ Invoke("authenticate")
    /\ remote' = remote \cup {"authenticate"}
    /\ pc' = "getRequestData"
    /\ UNCHANGED << args, cache, credsV, err, buildV, sessV, pollV, repV, outV >>

(* Variant of AuthenticateReturn that authenticates again after a failure. *)
AuthenticateReturnRetry ==
    /\ pc = "authenticate_wait"
    /\ active' = active \ {"authenticate"}
    /\ \/ /\ pc' = "getRequestData"
          /\ err' = err
       \/ /\ pc' = "authenticate"
          /\ err' = err
    /\ UNCHANGED << args, cache, credsV, calls, remote, buildV, sessV, pollV, repV,
                    outV >>

(* await client.authenticate(mxClient) *)
AuthenticateCall ==
    /\ pc = "authenticate"
    /\ Invoke("authenticate")
    /\ remote' = remote \cup {"authenticate"}
    /\ pc' = "authenticate_wait"
    /\ UNCHANGED << args, cache, credsV, err, buildV, sessV, pollV, repV, outV >>

AuthenticateReturn ==
    /\ pc = "authenticate_wait"
    /\ active' = active \ {"authenticate"}
    /\ \/ /\ pc' = "getRequestData"
          /\ err' = err
       \/ Throw("authenticate")
    /\ UNCHANGED << args, cache, credsV, calls, remote, buildV, sessV, pollV, repV,
                    outV >>

(* Variant of GetRequestData that lists the entry file alone. *)
GetRequestDataEntryOnly ==
    /\ pc = "getRequestData"
    /\ \/ /\ data' = [built |-> TRUE, sourceList |-> << EntryFile >>,
                      mode |-> args.mode, sources |-> << >>, hashes |-> FALSE]
          /\ output' = IF args.debug THEN Append(output, "RequestBody")
                                     ELSE output
          /\ pc' = "submitDataForAnalysis"
          /\ err' = err
       \/ /\ data' = data
          /\ output' = output
          /\ Throw("getRequestData")
    /\ UNCHANGED << args, cache, credsV, calls, active, remote, buildV, authArg,
                    submitted, uuid, pollV, repV, exitCode >>
(* Variant of getRequestData in which the debug option reaches the request *)
(* data: a debugging run asks for the full analysis.                       *)
GetRequestDataDebugFull ==
    /\ pc = "getRequestData"
    /\ \/ /\ data' = [built |-> TRUE, sourceList |-> sourceList,
                      mode |-> IF args.debug THEN "full" ELSE args.mode,
                      sources |-> << >>, hashes |-> FALSE]
          /\ output' = IF args.debug THEN Append(output, "RequestBody")
                                     ELSE output
          /\ pc' = "submitDataForAnalysis"
          /\ err' = err
       \/ /\ data' = data
          /\ output' = output
          /\ Throw("getRequestData")
    /\ UNCHANGED << args, cache, credsV, calls, active, remote, buildV, authArg,
                    submitted, uuid, pollV, repV, exitCode >>


(* const data = client.getRequestData(compiledData, sourceList, path, args) *)
(* followed by the debug print of the request body.                        *)
GetRequestData ==
    /\ pc = "getRequestData"
    /\ \/ /\ data' = [built |-> TRUE, sourceList |-> sourceList,
                      mode |-> args.mode, sources |-> << >>, hashes |-> FALSE]
          /\ output' = IF args.debug THEN Append(output, "RequestBody")
                                     ELSE output
          /\ pc' = "submitDataForAnalysis"
          /\ err' = err
       \/ /\ data' = data
          /\ output' = output
          /\ Throw("getRequestData")
    /\ UNCHANGED << args, cache, credsV, calls, active, remote, buildV, authArg,
                    submitted, uuid, pollV, repV, exitCode >>

(* const { uuid } = await client.submitDataForAnalysis(mxClient, data) *)
SubmitDataForAnalysisCall ==
    /\ pc = "submitDataForAnalysis"
    /\ Invoke("submitDataForAnalysis")
    /\ remote' = remote \cup {"submit"}
    /\ submitted' = data
    /\ pc' = "submitDataForAnalysis_wait"
    /\ UNCHANGED << args, cache, credsV, err, buildV, authArg, data, uuid, pollV,
                    repV, outV >>

SubmitDataForAnalysisReturn ==
    /\ pc = "submitDataForAnalysis_wait"
    /\ active' = active \ {"submitDataForAnalysis"}
    /\ \/ \E u \in Uuids :
             /\ uuid' = u
             /\ pc' = "awaitAnalysisFinish"
             /\ err' = err
       \/ /\ uuid' = uuid
          /\ Throw("submitDataForAnalysis")
    /\ UNCHANGED << args, cache, credsV, calls, remote, buildV, authArg, data,
                    submitted, pollV, repV, outV >>

(* Variant of PollParams with the two modes' pairs exchanged. *)
PollParamsSwapped(mode) ==
    IF mode = "quick" THEN << 300 * 1000, 2400 * 1000 >>
                      ELSE << 20 * 1000, 180 * 1000 >>

(* Variant of PollParams whose quick timeout is ten times too long. *)
PollParamsLongQuick(mode) ==
    IF mode = "quick" THEN << 20 * 1000, 1800 * 1000 >>
                      ELSE << 300 * 1000, 2400 * 1000 >>

(* if (args.mode === 'quick') { 20 s, 180 s } else { 300 s, 2400 s }, in ms *)
PollParams(mode) ==
    IF mode = "quick" THEN << 20 * 1000, 180 * 1000 >>
                      ELSE << 300 * 1000, 2400 * 1000 >>

(* Variant of AwaitAnalysisFinishCall without the await: the controller   *)
(* goes on to the report while the poll has not completed.                 *)
AwaitAnalysisFinishCallNoAwait ==
    /\ pc = "awaitAnalysisFinish"
    /\ Invoke("awaitAnalysisFinish")
    /\ initialDelay' = PollParams(args.mode)[1]
    /\ timeout' = PollParams(args.mode)[2]
    /\ pollArg' = << uuid, PollParams(args.mode)[1], PollParams(args.mode)[2] >>
    /\ elapsed' = 0
    /\ lastStatus' = ""
    /\ pc' = "getReport"
    /\ UNCHANGED << args, cache, credsV, err, remote, buildV, sessV, repV, outV >>

(* await client.awaitAnalysisFinish(mxClient, uuid, initialDelay, timeout) *)
AwaitAnalysisFinishCall ==
    /\ pc = "awaitAnalysisFinish"
    /\ Invoke("awaitAnalysisFinish")
    /\ initialDelay' = PollParams(args.mode)[1]
    /\ timeout' = PollParams(args.mode)[2]
    /\ pollArg' = << uuid, PollParams(args.mode)[1], PollParams(args.mode)[2] >>
    /\ elapsed' = 0
    /\ lastStatus' = ""
    /\ pc' = "pollDelay"
    /\ UNCHANGED << args, cache, credsV, err, remote, buildV, sessV, repV, outV >>

(* ------- the poll loop of awaitAnalysisFinish (client, section 4.5) ---- *)
(* The interval between two status checks, in ms. *)
PollInterval == 60000

JobStatuses == {"pending", "completed", "failed"}

(* The loop waits the initial delay before the first status check. *)
PollInitialDelay ==
    /\ pc = "pollDelay"
    /\ elapsed' = elapsed + pollArg[2]
    /\ pc' = "pollCheck"
    /\ UNCHANGED << args, cache, credsV, err, calls, active, remote, buildV, sessV,
                    initialDelay, timeout, pollArg, lastStatus, repV, outV >>

(* One status check: a terminal status ends the loop, a pending one makes  *)
(* it wait the interval; a failed job or a transport error is thrown.      *)
PollStatus ==
    /\ pc = "pollCheck"
    /\ elapsed <= pollArg[3]
    /\ remote' = remote \cup {"status"}
    /\ \/ /\ lastStatus' = "pending"
          /\ elapsed' = elapsed + PollInterval
          /\ pc' = "pollCheck"
          /\ UNCHANGED << err, active >>
       \/ /\ lastStatus' = "completed"
          /\ elapsed' = 0          \* the loop's clock ends with the loop
          /\ pc' = "getReport"
          /\ active' = active \ {"awaitAnalysisFinish"}
          /\ err' = err
       \/ /\ lastStatus' = "failed"
          /\ elapsed' = elapsed
          /\ active' = active \ {"awaitAnalysisFinish"}
          /\ Throw("AnalysisFailed")
       \/ /\ lastStatus' = lastStatus
          /\ elapsed' = elapsed
          /\ active' = active \ {"awaitAnalysisFinish"}
          /\ Throw("TransportError")
    /\ UNCHANGED << args, cache, credsV, calls, buildV, sessV, initialDelay, timeout,
                    pollArg, repV, outV >>

(* The elapsed time exceeds the timeout: the loop gives up and throws. *)
PollTimeout ==
    /\ pc = "pollCheck"
    /\ elapsed > pollArg[3]
    /\ active' = active \ {"awaitAnalysisFinish"}
    /\ Throw("AnalysisTimeout")
    /\ UNCHANGED << args, cache, credsV, calls, remote, buildV, sessV, pollV, repV,
                    outV >>


(* const issues = await client.getReport(mxClient, uuid) *)
GetReportCall ==
    /\ pc = "getReport"
    /\ Invoke("getReport")
    /\ remote' = remote \cup {"results"}
    /\ reportArg' = uuid
    /\ pc' = "getReport_wait"
    /\ UNCHANGED << args, cache, credsV, err, buildV, sessV, pollV, issues,
                    uniqueIssues, formatted, outV >>

GetReportReturn ==
    /\ pc = "getReport_wait"
    /\ active' = active \ {"getReport"}
    /\ \/ \E l \in IssueLists :
             /\ issues' = l
             /\ pc' = "prepare"
             /\ err' = err
       \/ /\ issues' = issues
          /\ Throw("getReport")
    /\ UNCHANGED << args, cache, credsV, calls, remote, buildV, sessV, pollV,
                    reportArg, uniqueIssues, formatted, outV >>

(* Variant of PrepareRender that prints the response body whatever the    *)
(* debug option.                                                           *)
PrepareRenderAlwaysPrint ==
    /\ pc = "prepare"
    /\ data' = [data EXCEPT !.sources = input, !.hashes = compiledData]
    /\ output' = Append(output, "ResponseBody")
    /\ pc' = "formatIssues"
    /\ UNCHANGED << args, cache, credsV, err, calls, active, remote, buildV, authArg,
                    submitted, uuid, pollV, repV, exitCode >>

(* data.sources = { ...input.sources }; data.functionHashes = ...;        *)
(* followed by the debug print of the response body.                       *)
PrepareRender ==
    /\ pc = "prepare"
    /\ data' = [data EXCEPT !.sources = input, !.hashes = compiledData]
    /\ output' = IF args.debug THEN Append(output, "ResponseBody") ELSE output
    /\ pc' = "formatIssues"
    /\ UNCHANGED << args, cache, credsV, err, calls, active, remote, buildV, authArg,
                    submitted, uuid, pollV, repV, exitCode >>

(* report.formatIssues (report, section 4.6): the first occurrence of each *)
(* identity is kept, in first-occurrence order.                            *)
KeyOf(f) == << f.rule, f.message, f.location >>

RECURSIVE Dedup(_, _)
Dedup(l, seen) ==
    IF l = << >> THEN << >>
    ELSE IF KeyOf(Head(l)) \in seen THEN Dedup(Tail(l), seen)
    ELSE << Head(l) >> \o Dedup(Tail(l), seen \cup {KeyOf(Head(l))})

(* Variant of formatIssues that takes the rule identifier alone for the    *)
(* identity of an issue.                                                   *)
RECURSIVE DedupByRule(_, _)
DedupByRule(l, seen) ==
    IF l = << >> THEN << >>
    ELSE IF Head(l).rule \in seen THEN DedupByRule(Tail(l), seen)
    ELSE << Head(l) >> \o DedupByRule(Tail(l), seen \cup {Head(l).rule})

formatIssuesByRule(d, iss) == DedupByRule(iss, {})

formatIssues(d, iss) == Dedup(iss, {})

(* const uniqueIssues = report.formatIssues(data, issues) *)
FormatIssuesCall ==
    /\ pc = "formatIssues"
    /\ Invoke("formatIssues")
    /\ pc' = "formatIssues_wait"
    /\ UNCHANGED << args, cache, credsV, err, remote, buildV, sessV, pollV, repV,
                    outV >>

FormatIssuesReturn ==
    /\ pc = "formatIssues_wait"
    /\ active' = active \ {"formatIssues"}
    /\ \/ /\ uniqueIssues' = formatIssues(data, issues)
          /\ pc' = "output"
          /\ err' = err
       \/ /\ uniqueIssues' = uniqueIssues
          /\ Throw("formatIssues")
    /\ UNCHANGED << args, cache, credsV, calls, remote, buildV, sessV, pollV,
                    reportArg, issues, formatted, outV >>

(* Variant of Output without the test for an empty list: the formatter is *)
(* selected and applied whatever the reduced list.                         *)
OutputAlwaysFormat ==
    /\ pc = "output"
    /\ \/ /\ formatted' = Append(formatted, << args.format, uniqueIssues >>)
          /\ output' = Append(output, "Rendered")
          /\ exitCode' = "returned"
          /\ pc' = "done"
          /\ err' = err
       \/ /\ formatted' = formatted
          /\ Throw("getFormatter")
          /\ UNCHANGED outV
       \/ /\ formatted' = Append(formatted, << args.format, uniqueIssues >>)
          /\ Throw("formatter")
          /\ UNCHANGED outV
    /\ UNCHANGED << args, cache, credsV, calls, active, remote, buildV, sessV, pollV,
                    reportArg, issues, uniqueIssues >>


(* Variant of Output that prints the rendered block before a step that    *)
(* can still fail.                                                         *)
OutputThenFail ==
    /\ pc = "output"
    /\ IF Len(uniqueIssues) = 0
          THEN /\ output' = Append(output, "NoIssues")
               /\ exitCode' = "returned"
               /\ pc' = "done"
               /\ UNCHANGED << err, formatted >>
          ELSE \/ /\ formatted' = Append(formatted, << args.format, uniqueIssues >>)
                  /\ output' = Append(output, "Rendered")
                  /\ exitCode' = "returned"
                  /\ pc' = "done"
                  /\ err' = err
               \/ /\ formatted' = Append(formatted, << args.format, uniqueIssues >>)
                  /\ output' = Append(output, "Rendered")
                  /\ exitCode' = exitCode
                  /\ Throw("formatter")
    /\ UNCHANGED << args, cache, credsV, calls, active, remote, buildV, sessV, pollV,
                    reportArg, issues, uniqueIssues >>

(* if (uniqueIssues.length === 0) the success line is printed; otherwise   *)
(* the formatter is selected, applied, and its output printed.  The        *)
(* function then returns.                                                   *)
Output ==
    /\ pc = "output"
    /\ IF Len(uniqueIssues) = 0
          THEN /\ output' = Append(output, "NoIssues")
               /\ exitCode' = "returned"
               /\ pc' = "done"
               /\ UNCHANGED << err, formatted >>
          ELSE \/ /\ formatted' = Append(formatted, << args.format, uniqueIssues >>)
                  /\ output' = Append(output, "Rendered")
                  /\ exitCode' = "returned"
                  /\ pc' = "done"
                  /\ err' = err
               \/ /\ formatted' = formatted
                  /\ Throw("getFormatter")
                  /\ UNCHANGED outV
               \/ /\ formatted' = Append(formatted, << args.format, uniqueIssues >>)
                  /\ Throw("formatter")
                  /\ UNCHANGED outV
    /\ UNCHANGED << args, cache, credsV, calls, active, remote, buildV, sessV, pollV,
                    reportArg, issues, uniqueIssues >>

(* Variant of Catch without process.exit: the error is printed and the     *)
(* process stays alive.                                                    *)
CatchNoExit ==
    /\ pc = "catch"
    /\ output' = Append(output, "Error")
    /\ exitCode' = exitCode
    /\ pc' = "caught"
    /\ UNCHANGED << args, cache, credsV, err, calls, active, remote, buildV, sessV,
                    pollV, repV >>

(* catch (err) { spinner.fail(); console.log(chalk.red(err)); process.exit(1) } *)
Catch ==
    /\ pc = "catch"
    /\ output' = Append(output, "Error")
    /\ exitCode' = "exit1"
    /\ pc' = "exited"
    /\ UNCHANGED << args, cache, credsV, err, calls, active, remote, buildV, sessV,
                    pollV, repV >>

(* ---------------------- the second run's steps ------------------------ *)
(* Each step of the controller, taken by the second run.                   *)

credsV2 == << ethAddress2, password2 >>

buildV2 == << fileRead2, version2, loadArg2, solcSnapshot2, resolveArg2, compileArg2,
             sourceList2, input2, compiledData2 >>

sessV2 == << authArg2, data2, submitted2, uuid2 >>

pollV2 == << initialDelay2, timeout2, pollArg2, elapsed2, lastStatus2 >>

repV2 == << reportArg2, issues2, uniqueIssues2, formatted2 >>

outV2 == << output2, exitCode2 >>

Invoke2(op) ==
    /\ calls2' = Append(calls2, op)
    /\ active2' = active2 \cup {op}

Throw2(stage) ==
    /\ pc2' = "catch"
    /\ err2' = stage

CheckMode2 ==
    /\ pc2 = "checkMode"
    /\ IF args2.mode \notin modes
          THEN /\ output2' = Append(output2, "InvalidMode")
               /\ exitCode2' = "exit-1"
               /\ pc2' = "exited"
          ELSE /\ pc2' = "checkFormat"
               /\ UNCHANGED outV2
    /\ UNCHANGED << args2, credsV2, err2, calls2, active2, remote2, buildV2, sessV2,
                    pollV2, repV2 >>

CheckFormat2 ==
    /\ pc2 = "checkFormat"
    /\ IF args2.format \notin formats
          THEN /\ output2' = Append(output2, "InvalidFormat")
               /\ exitCode2' = "exit-1"
               /\ pc2' = "exited"
          ELSE /\ pc2' = "setup"
               /\ UNCHANGED outV2
    /\ UNCHANGED << args2, credsV2, err2, calls2, active2, remote2, buildV2, sessV2,
                    pollV2, repV2 >>

Setup2 ==
    /\ pc2 = "setup"
    /\ IF ~(ethAddress2 # "" /\ password2 # "")
          THEN /\ ethAddress2' = TrialAddress
               /\ password2' = TrialPassword
          ELSE UNCHANGED credsV2
    /\ pc2' = "readFile"
    /\ UNCHANGED << args2, err2, calls2, active2, remote2, buildV2, sessV2, pollV2,
                    repV2, outV2 >>

ReadFile2 ==
    /\ pc2 = "readFile"
    /\ \/ /\ fileRead2' = TRUE
          /\ pc2' = "getSolidityVersion"
          /\ err2' = err2
       \/ /\ fileRead2' = fileRead2
          /\ Throw2("readFile")
    /\ UNCHANGED << args2, credsV2, calls2, active2, remote2, version2, loadArg2,
                    solcSnapshot2, resolveArg2, compileArg2, sourceList2, input2,
                    compiledData2, sessV2, pollV2, repV2, outV2 >>

GetSolidityVersionCall2 ==
    /\ pc2 = "getSolidityVersion"
    /\ Invoke2("getSolidityVersion")
    /\ pc2' = "getSolidityVersion_wait"
    /\ UNCHANGED << args2, credsV2, err2, remote2, buildV2, sessV2, pollV2, repV2, outV2 >>

GetSolidityVersionReturn2 ==
    /\ pc2 = "getSolidityVersion_wait"
    /\ active2' = active2 \ {"getSolidityVersion"}
    /\ \/ \E v \in Versions :
             /\ version2' = v
             /\ pc2' = "loadSolcVersion"
             /\ err2' = err2
       \/ /\ version2' = version2
          /\ Throw2("getSolidityVersion")
    /\ UNCHANGED << args2, credsV2, calls2, remote2, fileRead2, loadArg2, solcSnapshot2,
                    resolveArg2, compileArg2, sourceList2, input2, compiledData2,
                    sessV2, pollV2, repV2, outV2 >>

LoadSolcVersionCall2 ==
    /\ pc2 = "loadSolcVersion"
    /\ Invoke2("loadSolcVersion")
    /\ loadArg2' = releases[version2]
    /\ pc2' = "loadSolcVersion_wait"
    /\ UNCHANGED << args2, credsV2, err2, remote2, fileRead2, version2, solcSnapshot2,
                    resolveArg2, compileArg2, sourceList2, input2, compiledData2,
                    sessV2, pollV2, repV2, outV2 >>

LoadSolcVersionReturn2 ==
    /\ pc2 = "loadSolcVersion_wait"
    /\ active2' = active2 \ {"loadSolcVersion"}
    /\ \/ \E fromCache \in BOOLEAN :
             /\ solcSnapshot2' = loadArg2
             /\ pc2' = "resolveAllSources"
             /\ err2' = err2
       \/ /\ solcSnapshot2' = solcSnapshot2
          /\ Throw2("loadSolcVersion")
    /\ UNCHANGED << args2, credsV2, calls2, remote2, fileRead2, version2, loadArg2,
                    resolveArg2, compileArg2, sourceList2, input2, compiledData2,
                    sessV2, pollV2, repV2, outV2 >>

ResolveAllSourcesCall2 ==
    /\ pc2 = "resolveAllSources"
    /\ Invoke2("resolveAllSources")
    /\ resolveArg2' = solcSnapshot2
    /\ pc2' = "resolveAllSources_wait"
    /\ UNCHANGED << args2, credsV2, err2, remote2, fileRead2, version2, loadArg2,
                    solcSnapshot2, compileArg2, sourceList2, input2, compiledData2,
                    sessV2, pollV2, repV2, outV2 >>

ResolveAllSourcesReturn2 ==
    /\ pc2 = "resolveAllSources_wait"
    /\ active2' = active2 \ {"resolveAllSources"}
    /\ \/ \E l \in SourceLists :
             /\ sourceList2' = l
             /\ pc2' = "getSolcInput"
             /\ err2' = err2
       \/ /\ sourceList2' = sourceList2
          /\ Throw2("resolveAllSources")
    /\ UNCHANGED << args2, credsV2, calls2, remote2, fileRead2, version2, loadArg2,
                    solcSnapshot2, resolveArg2, compileArg2, input2, compiledData2,
                    sessV2, pollV2, repV2, outV2 >>

GetSolcInput2 ==
    /\ pc2 = "getSolcInput"
    /\ \/ /\ input2' = sourceList2
          /\ pc2' = "getCompiledContracts"
          /\ err2' = err2
       \/ /\ input2' = input2
          /\ Throw2("getSolcInput")
    /\ UNCHANGED << args2, credsV2, calls2, active2, remote2, fileRead2, version2,
                    loadArg2, solcSnapshot2, resolveArg2, compileArg2, sourceList2,
                    compiledData2, sessV2, pollV2, repV2, outV2 >>

GetCompiledContractsCall2 ==
    /\ pc2 = "getCompiledContracts"
    /\ Invoke2("getCompiledContracts")
    /\ compileArg2' = solcSnapshot2
    /\ pc2' = "getCompiledContracts_wait"
    /\ UNCHANGED << args2, credsV2, err2, remote2, fileRead2, version2, loadArg2,
                    solcSnapshot2, resolveArg2, sourceList2, input2, compiledData2,
                    sessV2, pollV2, repV2, outV2 >>

GetCompiledContractsReturn2 ==
    /\ pc2 = "getCompiledContracts_wait"
    /\ active2' = active2 \ {"getCompiledContracts"}
    /\ \/ /\ compiledData2' = TRUE
          /\ pc2' = "initialize"
          /\ err2' = err2
       \/ /\ compiledData2' = compiledData2
          /\ Throw2("getCompiledContracts")
    /\ UNCHANGED << args2, credsV2, calls2, remote2, fileRead2, version2, loadArg2,
                    solcSnapshot2, resolveArg2, compileArg2, sourceList2, input2,
                    sessV2, pollV2, repV2, outV2 >>

Initialize2 ==
    /\ pc2 = "initialize"
    /\ \/ /\ authArg2' = << ethAddress2, password2 >>
          /\ pc2' = "authenticate"
          /\ err2' = err2
       \/ /\ authArg2' = authArg2
          /\ Throw2("initialize")
    /\ UNCHANGED << args2, credsV2, calls2, active2, remote2, buildV2, data2,
                    submitted2, uuid2, pollV2, repV2, outV2 >>

AuthenticateCall2 ==
    /\ pc2 = "authenticate"
    /\ Invoke2("authenticate")
    /\ remote2' = remote2 \cup {"authenticate"}
    /\ pc2' = "authenticate_wait"
    /\ UNCHANGED << args2, credsV2, err2, buildV2, sessV2, pollV2, repV2, outV2 >>

AuthenticateReturn2 ==
    /\ pc2 = "authenticate_wait"
    /\ active2' = active2 \ {"authenticate"}
    /\ \/ /\ pc2' = "getRequestData"
          /\ err2' = err2
       \/ Throw2("authenticate")
    /\ UNCHANGED << args2, credsV2, calls2, remote2, buildV2, sessV2, pollV2, repV2,
                    outV2 >>

GetRequestData2 ==
    /\ pc2 = "getRequestData"
    /\ \/ /\ data2' = [built |-> TRUE, sourceList |-> sourceList2,
                      mode |-> args2.mode, sources |-> << >>, hashes |-> FALSE]
          /\ output2' = IF args2.debug THEN Append(output2, "RequestBody")
                                     ELSE output2
          /\ pc2' = "submitDataForAnalysis"
          /\ err2' = err2
       \/ /\ data2' = data2
          /\ output2' = output2
          /\ Throw2("getRequestData")
    /\ UNCHANGED << args2, credsV2, calls2, active2, remote2, buildV2, authArg2,
                    submitted2, uuid2, pollV2, repV2, exitCode2 >>

SubmitDataForAnalysisCall2 ==
    /\ pc2 = "submitDataForAnalysis"
    /\ Invoke2("submitDataForAnalysis")
    /\ remote2' = remote2 \cup {"submit"}
    /\ submitted2' = data2
    /\ pc2' = "submitDataForAnalysis_wait"
    /\ UNCHANGED << args2, credsV2, err2, buildV2, authArg2, data2, uuid2, pollV2,
                    repV2, outV2 >>

SubmitDataForAnalysisReturn2 ==
    /\ pc2 = "submitDataForAnalysis_wait"
    /\ active2' = active2 \ {"submitDataForAnalysis"}
    /\ \/ \E u \in Uuids :
             /\ uuid2' = u
             /\ pc2' = "awaitAnalysisFinish"
             /\ err2' = err2
       \/ /\ uuid2' = uuid2
          /\ Throw2("submitDataForAnalysis")
    /\ UNCHANGED << args2, credsV2, calls2, remote2, buildV2, authArg2, data2,
                    submitted2, pollV2, repV2, outV2 >>

AwaitAnalysisFinishCall2 ==
    /\ pc2 = "awaitAnalysisFinish"
    /\ Invoke2("awaitAnalysisFinish")
    /\ initialDelay2' = PollParams(args2.mode)[1]
    /\ timeout2' = PollParams(args2.mode)[2]
    /\ pollArg2' = << uuid2, PollParams(args2.mode)[1], PollParams(args2.mode)[2] >>
    /\ elapsed2' = 0
    /\ lastStatus2' = ""
    /\ pc2' = "pollDelay"
    /\ UNCHANGED << args2, credsV2, err2, remote2, buildV2, sessV2, repV2, outV2 >>

PollInitialDelay2 ==
    /\ pc2 = "pollDelay"
    /\ elapsed2' = elapsed2 + pollArg2[2]
    /\ pc2' = "pollCheck"
    /\ UNCHANGED << args2, credsV2, err2, calls2, active2, remote2, buildV2, sessV2,
                    initialDelay2, timeout2, pollArg2, lastStatus2, repV2, outV2 >>

PollStatus2 ==
    /\ pc2 = "pollCheck"
    /\ elapsed2 <= pollArg2[3]
    /\ remote2' = remote2 \cup {"status"}
    /\ \/ /\ lastStatus2' = "pending"
          /\ elapsed2' = elapsed2 + PollInterval
          /\ pc2' = "pollCheck"
          /\ UNCHANGED << err2, active2 >>
       \/ /\ lastStatus2' = "completed"
          /\ elapsed2' = 0          \* the loop's clock ends with the loop
          /\ pc2' = "getReport"
          /\ active2' = active2 \ {"awaitAnalysisFinish"}
          /\ err2' = err2
       \/ /\ lastStatus2' = "failed"
          /\ elapsed2' = elapsed2
          /\ active2' = active2 \ {"awaitAnalysisFinish"}
          /\ Throw2("AnalysisFailed")
       \/ /\ lastStatus2' = lastStatus2
          /\ elapsed2' = elapsed2
          /\ active2' = active2 \ {"awaitAnalysisFinish"}
          /\ Throw2("TransportError")
    /\ UNCHANGED << args2, credsV2, calls2, buildV2, sessV2, initialDelay2, timeout2,
                    pollArg2, repV2, outV2 >>

PollTimeout2 ==
    /\ pc2 = "pollCheck"
    /\ elapsed2 > pollArg2[3]
    /\ active2' = active2 \ {"awaitAnalysisFinish"}
    /\ Throw2("AnalysisTimeout")
    /\ UNCHANGED << args2, credsV2, calls2, remote2, buildV2, sessV2, pollV2, repV2,
                    outV2 >>

GetReportCall2 ==
    /\ pc2 = "getReport"
    /\ Invoke2("getReport")
    /\ remote2' = remote2 \cup {"results"}
    /\ reportArg2' = uuid2
    /\ pc2' = "getReport_wait"
    /\ UNCHANGED << args2, credsV2, err2, buildV2, sessV2, pollV2, issues2,
                    uniqueIssues2, formatted2, outV2 >>

GetReportReturn2 ==
    /\ pc2 = "getReport_wait"
    /\ active2' = active2 \ {"getReport"}
    /\ \/ \E l \in IssueLists :
             /\ issues2' = l
             /\ pc2' = "prepare"
             /\ err2' = err2
       \/ /\ issues2' = issues2
          /\ Throw2("getReport")
    /\ UNCHANGED << args2, credsV2, calls2, remote2, buildV2, sessV2, pollV2,
                    reportArg2, uniqueIssues2, formatted2, outV2 >>

PrepareRender2 ==
    /\ pc2 = "prepare"
    /\ data2' = [data2 EXCEPT !.sources = input2, !.hashes = compiledData2]
    /\ output2' = IF args2.debug THEN Append(output2, "ResponseBody") ELSE output2
    /\ pc2' = "formatIssues"
    /\ UNCHANGED << args2, credsV2, err2, calls2, active2, remote2, buildV2, authArg2,
                    submitted2, uuid2, pollV2, repV2, exitCode2 >>

FormatIssuesCall2 ==
    /\ pc2 = "formatIssues"
    /\ Invoke2("formatIssues")
    /\ pc2' = "formatIssues_wait"
    /\ UNCHANGED << args2, credsV2, err2, remote2, buildV2, sessV2, pollV2, repV2,
                    outV2 >>

FormatIssuesReturn2 ==
    /\ pc2 = "formatIssues_wait"
    /\ active2' = active2 \ {"formatIssues"}
    /\ \/ /\ uniqueIssues2' = formatIssues(data2, issues2)
          /\ pc2' = "output"
          /\ err2' = err2
       \/ /\ uniqueIssues2' = uniqueIssues2
          /\ Throw2("formatIssues")
    /\ UNCHANGED << args2, credsV2, calls2, remote2, buildV2, sessV2, pollV2,
                    reportArg2, issues2, formatted2, outV2 >>

Output2 ==
    /\ pc2 = "output"
    /\ IF Len(uniqueIssues2) = 0
          THEN /\ output2' = Append(output2, "NoIssues")
               /\ exitCode2' = "returned"
               /\ pc2' = "done"
               /\ UNCHANGED << err2, formatted2 >>
          ELSE \/ /\ formatted2' = Append(formatted2, << args2.format, uniqueIssues2 >>)
                  /\ output2' = Append(output2, "Rendered")
                  /\ exitCode2' = "returned"
                  /\ pc2' = "done"
                  /\ err2' = err2
               \/ /\ formatted2' = formatted2
                  /\ Throw2("getFormatter")
                  /\ UNCHANGED outV2
               \/ /\ formatted2' = Append(formatted2, << args2.format, uniqueIssues2 >>)
                  /\ Throw2("formatter")
                  /\ UNCHANGED outV2
    /\ UNCHANGED << args2, credsV2, calls2, active2, remote2, buildV2, sessV2, pollV2,
                    reportArg2, issues2, uniqueIssues2 >>

Catch2 ==
    /\ pc2 = "catch"
    /\ output2' = Append(output2, "Error")
    /\ exitCode2' = "exit1"
    /\ pc2' = "exited"
    /\ UNCHANGED << args2, credsV2, err2, calls2, active2, remote2, buildV2, sessV2,
                    pollV2, repV2 >>

Next ==
    \/ CheckMode /\ UNCHANGED twinV
    \/ CheckFormat /\ UNCHANGED twinV
    \/ Setup /\ UNCHANGED twinV
    \/ ReadFile /\ UNCHANGED twinV
    \/ GetSolidityVersionCall /\ UNCHANGED twinV
    \/ GetSolidityVersionReturn /\ UNCHANGED twinV
    \/ LoadSolcVersionCall /\ UNCHANGED twinV
    \/ LoadSolcVersionReturn /\ UNCHANGED twinV
    \/ ResolveAllSourcesCall /\ UNCHANGED twinV
    \/ ResolveAllSourcesReturn /\ UNCHANGED twinV
    \/ GetSolcInput /\ UNCHANGED twinV
    \/ GetCompiledContractsCall /\ UNCHANGED twinV
    \/ GetCompiledContractsReturn /\ UNCHANGED twinV
    \/ Initialize /\ UNCHANGED twinV
    \/ AuthenticateCall /\ UNCHANGED twinV
    \/ AuthenticateReturn /\ UNCHANGED twinV
    \/ GetRequestData /\ UNCHANGED twinV
    \/ SubmitDataForAnalysisCall /\ UNCHANGED twinV
    \/ SubmitDataForAnalysisReturn /\ UNCHANGED twinV
    \/ AwaitAnalysisFinishCall /\ UNCHANGED twinV
    \/ PollInitialDelay /\ UNCHANGED twinV
    \/ PollStatus /\ UNCHANGED twinV
    \/ PollTimeout /\ UNCHANGED twinV
    \/ GetReportCall /\ UNCHANGED twinV
    \/ GetReportReturn /\ UNCHANGED twinV
    \/ PrepareRender /\ UNCHANGED twinV
    \/ FormatIssuesCall /\ UNCHANGED twinV
    \/ FormatIssuesReturn /\ UNCHANGED twinV
    \/ Output /\ UNCHANGED twinV
    \/ Catch /\ UNCHANGED twinV

Spec == Init /\ [][Next]_vars

FairSpec == Spec /\ WF_vars(Next)

(* ------------------- the finding reducer on its own -------------------- *)
(* A controller that has not started: every variable but pc, issues and    *)
(* uniqueIssues has its initial value.                                      *)
Parked ==
    /\ args = [mode |-> "quick", format |-> "json", debug |-> FALSE]
    /\ ethAddress = ""
    /\ password = ""
    /\ err = ""
    /\ calls = << >>
    /\ active = {}
    /\ remote = {}
    /\ fileRead = FALSE
    /\ version = 0
    /\ loadArg = 0
    /\ solcSnapshot = 0
    /\ resolveArg = 0
    /\ compileArg = 0
    /\ sourceList = << >>
    /\ input = << >>
    /\ compiledData = FALSE
    /\ authArg = << >>
    /\ data = NoData
    /\ submitted = NoData
    /\ uuid = 0
    /\ initialDelay = 0
    /\ timeout = 0
    /\ pollArg = << >>
    /\ elapsed = 0
    /\ lastStatus = ""
    /\ reportArg = 0
    /\ formatted = << >>
    /\ output = << >>
    /\ exitCode = "running"

parkedV == << args, credsV, err, calls, active, remote, buildV, sessV, pollV,
             reportArg, formatted, outV >>

ReduceInit ==
    /\ Parked
    /\ Parked2
    /\ cache = EmptyCache
    /\ pc = "reduce"
    /\ issues \in RawIssueLists
    /\ uniqueIssues = << >>

(* The reducer is applied to the raw list. *)
Reduce ==
    /\ pc = "reduce"
    /\ uniqueIssues' = formatIssues(data, issues)
    /\ pc' = "reduced"
    /\ UNCHANGED << parkedV, issues, cache, twinV >>

(* The reducer is applied to its own result. *)
ReduceAgain ==
    /\ pc = "reduced"
    /\ uniqueIssues' = formatIssues(data, uniqueIssues)
    /\ pc' = "reducedTwice"
    /\ UNCHANGED << parkedV, issues, cache, twinV >>

ReduceNext ==
    \/ Reduce
    \/ ReduceAgain

ReduceSpec == ReduceInit /\ [][ReduceNext]_vars

(* ------------------- the toolchain cache on its own -------------------- *)
(* acquire(VersionIdentifier), section 4.2, called by several callers of   *)
(* one process at once.                                                     *)
CacheInit ==
    /\ Parked
    /\ Parked2
    /\ pc = "cache"
    /\ issues = << >>
    /\ uniqueIssues = << >>
    /\ \E st \in [Versions -> {-1, 0}] : cache = [EmptyCache EXCEPT !.store = st]

ctlV == << parkedV, pc, issues, uniqueIssues >>

(* A hit: the stored snapshot is loaded and returned at once. *)
AcquireHit(c, v) ==
    /\ cache.caller[c].at = "idle"
    /\ cache.store[v] # -1
    /\ cache' = [cache EXCEPT !.caller[c] =
                    [at |-> "done", v |-> v, got |-> cache.store[v],
                     fromCache |-> TRUE]]
    /\ UNCHANGED << ctlV, twinV >>

(* A miss while a download of the version is in flight: the caller awaits  *)
(* the result of that download.                                            *)
AcquireJoin(c, v) ==
    /\ cache.caller[c].at = "idle"
    /\ cache.store[v] = -1
    /\ cache.inflight[v] > 0
    /\ cache' = [cache EXCEPT !.caller[c] =
                    [at |-> "waiting", v |-> v, got |-> -1, fromCache |-> FALSE]]
    /\ UNCHANGED << ctlV, twinV >>

(* Variant of AcquireDownload that does not look at the downloads in       *)
(* flight.                                                                  *)
AcquireDownloadAlways(c, v) ==
    /\ cache.caller[c].at = "idle"
    /\ cache.store[v] = -1
    /\ cache' = [cache EXCEPT !.caller[c] =
                    [at |-> "downloading", v |-> v, got |-> cache.serial + 1,
                     fromCache |-> FALSE],
                               !.inflight[v] = @ + 1,
                               !.started[v] = @ + 1,
                               !.serial = @ + 1]
    /\ UNCHANGED << ctlV, twinV >>

(* A miss with no download in flight: the caller starts the download. *)
AcquireDownload(c, v) ==
    /\ cache.caller[c].at = "idle"
    /\ cache.store[v] = -1
    /\ cache.inflight[v] = 0
    /\ cache' = [cache EXCEPT !.caller[c] =
                    [at |-> "downloading", v |-> v, got |-> cache.serial + 1,
                     fromCache |-> FALSE],
                               !.inflight[v] = @ + 1,
                               !.started[v] = @ + 1,
                               !.serial = @ + 1]
    /\ UNCHANGED << ctlV, twinV >>

(* The download ends: the snapshot is stored under its version and handed  *)
(* to the caller that started it and to every caller awaiting it.          *)
DownloadDone(c) ==
    /\ cache.caller[c].at = "downloading"
    /\ LET v == cache.caller[c].v
           n == cache.caller[c].got
       IN  cache' = [cache EXCEPT
                !.store[v] = n,
                !.inflight[v] = @ - 1,
                !.caller = [d \in Callers |->
                    IF d = c \/ (cache.caller[d].at = "waiting"
                                  /\ cache.caller[d].v = v)
                       THEN [at |-> "done", v |-> v, got |-> n,
                             fromCache |-> FALSE]
                       ELSE cache.caller[d]]]
    /\ UNCHANGED << ctlV, twinV >>

(* The download fails: nothing is stored, and the caller that started it   *)
(* and every caller awaiting it fail with ToolchainUnavailable.            *)
DownloadFail(c) ==
    /\ cache.caller[c].at = "downloading"
    /\ LET v == cache.caller[c].v
       IN  cache' = [cache EXCEPT
                !.inflight[v] = @ - 1,
                !.failed[v] = @ + 1,
                !.caller = [d \in Callers |->
                    IF d = c \/ (cache.caller[d].at = "waiting"
                                  /\ cache.caller[d].v = v)
                       THEN [at |-> "failed", v |-> v, got |-> -1,
                             fromCache |-> FALSE]
                       ELSE cache.caller[d]]]
    /\ UNCHANGED << ctlV, twinV >>

CacheNext ==
    \/ \E c \in Callers, v \in Versions : AcquireHit(c, v)
    \/ \E c \in Callers, v \in Versions : AcquireJoin(c, v)
    \/ \E c \in Callers, v \in Versions : AcquireDownload(c, v)
    \/ \E c \in Callers : DownloadDone(c)
    \/ \E c \in Callers : DownloadFail(c)

CacheSpec == CacheInit /\ [][CacheNext]_vars


(* ------------------------- two runs side by side ----------------------- *)
(* Two runs that differ in the debug option only take each step together   *)
(* and get the same responses from their collaborators.                     *)
PairInit ==
    /\ Start
    /\ cache = EmptyCache
    /\ Start2
    /\ args2 = [args EXCEPT !.debug = ~args.debug]
    /\ ethAddress2 = ethAddress
    /\ password2 = password

(* What the collaborators answered: the file read, the values returned,    *)
(* the statuses reported, the time that passed and the failure thrown.      *)
Responses ==
    << fileRead, version, solcSnapshot, sourceList, input, compiledData,
       uuid, elapsed, lastStatus, issues, uniqueIssues, err >>

Responses2 ==
    << fileRead2, version2, solcSnapshot2, sourceList2, input2, compiledData2,
       uuid2, elapsed2, lastStatus2, issues2, uniqueIssues2, err2 >>

SameResponses == Responses = Responses2

CheckModePair == CheckMode /\ CheckMode2 /\ SameResponses'

CheckFormatPair == CheckFormat /\ CheckFormat2 /\ SameResponses'

SetupPair == Setup /\ Setup2 /\ SameResponses'

ReadFilePair == ReadFile /\ ReadFile2 /\ SameResponses'

GetSolidityVersionCallPair == GetSolidityVersionCall /\ GetSolidityVersionCall2 /\ SameResponses'

GetSolidityVersionReturnPair == GetSolidityVersionReturn /\ GetSolidityVersionReturn2 /\ SameResponses'

LoadSolcVersionCallPair == LoadSolcVersionCall /\ LoadSolcVersionCall2 /\ SameResponses'

LoadSolcVersionReturnPair == LoadSolcVersionReturn /\ LoadSolcVersionReturn2 /\ SameResponses'

ResolveAllSourcesCallPair == ResolveAllSourcesCall /\ ResolveAllSourcesCall2 /\ SameResponses'

ResolveAllSourcesReturnPair == ResolveAllSourcesReturn /\ ResolveAllSourcesReturn2 /\ SameResponses'

GetSolcInputPair == GetSolcInput /\ GetSolcInput2 /\ SameResponses'

GetCompiledContractsCallPair == GetCompiledContractsCall /\ GetCompiledContractsCall2 /\ SameResponses'

GetCompiledContractsReturnPair == GetCompiledContractsReturn /\ GetCompiledContractsReturn2 /\ SameResponses'

InitializePair == Initialize /\ Initialize2 /\ SameResponses'

AuthenticateCallPair == AuthenticateCall /\ AuthenticateCall2 /\ SameResponses'

AuthenticateReturnPair == AuthenticateReturn /\ AuthenticateReturn2 /\ SameResponses'

GetRequestDataPair == GetRequestData /\ GetRequestData2 /\ SameResponses'

SubmitDataForAnalysisCallPair == SubmitDataForAnalysisCall /\ SubmitDataForAnalysisCall2 /\ SameResponses'

SubmitDataForAnalysisReturnPair == SubmitDataForAnalysisReturn /\ SubmitDataForAnalysisReturn2 /\ SameResponses'

AwaitAnalysisFinishCallPair == AwaitAnalysisFinishCall /\ AwaitAnalysisFinishCall2 /\ SameResponses'

PollInitialDelayPair == PollInitialDelay /\ PollInitialDelay2 /\ SameResponses'

PollStatusPair == PollStatus /\ PollStatus2 /\ SameResponses'

PollTimeoutPair == PollTimeout /\ PollTimeout2 /\ SameResponses'

GetReportCallPair == GetReportCall /\ GetReportCall2 /\ SameResponses'

GetReportReturnPair == GetReportReturn /\ GetReportReturn2 /\ SameResponses'

PrepareRenderPair == PrepareRender /\ PrepareRender2 /\ SameResponses'

FormatIssuesCallPair == FormatIssuesCall /\ FormatIssuesCall2 /\ SameResponses'

FormatIssuesReturnPair == FormatIssuesReturn /\ FormatIssuesReturn2 /\ SameResponses'

OutputPair == Output /\ Output2 /\ SameResponses'

CatchPair == Catch /\ Catch2 /\ SameResponses'

PairNext ==
    \/ CheckModePair
    \/ CheckFormatPair
    \/ SetupPair
    \/ ReadFilePair
    \/ GetSolidityVersionCallPair
    \/ GetSolidityVersionReturnPair
    \/ LoadSolcVersionCallPair
    \/ LoadSolcVersionReturnPair
    \/ ResolveAllSourcesCallPair
    \/ ResolveAllSourcesReturnPair
    \/ GetSolcInputPair
    \/ GetCompiledContractsCallPair
    \/ GetCompiledContractsReturnPair
    \/ InitializePair
    \/ AuthenticateCallPair
    \/ AuthenticateReturnPair
    \/ GetRequestDataPair
    \/ SubmitDataForAnalysisCallPair
    \/ SubmitDataForAnalysisReturnPair
    \/ AwaitAnalysisFinishCallPair
    \/ PollInitialDelayPair
    \/ PollStatusPair
    \/ PollTimeoutPair
    \/ GetReportCallPair
    \/ GetReportReturnPair
    \/ PrepareRenderPair
    \/ FormatIssuesCallPair
    \/ FormatIssuesReturnPair
    \/ OutputPair
    \/ CatchPair

PairSpec == PairInit /\ [][PairNext]_vars

(* ============================== claims ================================ *)
Failed == exitCode \in {"exit1", "exit-1"}

Terminated == pc \in {"done", "exited"}

NoDuplicates(l) == \A i, j \in DOMAIN l : l[i] = l[j] => i = j

Count(l, S) == Cardinality({ i \in DOMAIN l : l[i] \in S })

(* C1: the stage operations are invoked in the fixed order version         *)
(* detection, toolchain acquisition, dependency resolution, compilation,   *)
(* authentication, submission, polling, result retrieval, finding          *)
(* reduction; a stage is invoked only when every earlier stage has been    *)
(* invoked and has returned without error, and at most one stage is in     *)
(* progress at any time.                                                   *)
C1_StagesSequential ==
    [][ /\ Cardinality(active') <= 1
        /\ calls' # calls =>
              /\ active = {}
              /\ err = ""
              /\ Len(calls) < 9
              /\ calls = SubSeq(<< "getSolidityVersion", "loadSolcVersion",
                                   "resolveAllSources", "getCompiledContracts",
                                   "authenticate", "submitDataForAnalysis",
                                   "awaitAnalysisFinish", "getReport",
                                   "formatIssues" >>, 1, Len(calls))
              /\ calls' = SubSeq(<< "getSolidityVersion", "loadSolcVersion",
                                    "resolveAllSources", "getCompiledContracts",
                                    "authenticate", "submitDataForAnalysis",
                                    "awaitAnalysisFinish", "getReport",
                                    "formatIssues" >>, 1, Len(calls) + 1) ]_vars

C1_Witness ==
    /\ pc = "done"
    /\ Len(calls) = 9
    /\ calls[9] = "formatIssues"

(* C2: when the requested format is none of text, stylish, compact, table, *)
(* html, json, the entry file is never read, the toolchain is never        *)
(* acquired, nothing is compiled, no stage operation and no remote-service *)
(* operation is invoked, and the run ends rejected.                        *)
C2_UnknownFormatFailsFast ==
    args.format \notin {"text", "stylish", "compact", "table", "html", "json"} =>
        /\ ~fileRead
        /\ calls = << >>
        /\ active = {}
        /\ loadArg = 0
        /\ solcSnapshot = 0
        /\ ~compiledData
        /\ remote = {}
        /\ pc \in {"checkMode", "checkFormat", "exited"}
        /\ pc = "exited" => exitCode = "exit-1"

C2_Witness ==
    /\ args.format = "xml"
    /\ args.mode = "quick"
    /\ pc = "exited"
    /\ output = << "InvalidFormat" >>

(* C3: in quick mode, once the job has been pending for more than 180 s    *)
(* the poll ends with the timeout error; after the timeout the run goes to *)
(* the failure outcome, getReport is never invoked and no remote-service   *)
(* operation is issued any more.                                           *)
C3_QuickTimeout ==
    [][ /\ ( /\ args.mode = "quick"
             /\ pc = "pollCheck"
             /\ lastStatus = "pending"
             /\ elapsed > 180 * 1000 )
           => ( /\ pc' = "catch"
                /\ err' = "AnalysisTimeout"
                /\ remote' = remote )
        /\ err = "AnalysisTimeout"
           => ( /\ pc' = "exited"
                /\ exitCode' = "exit1"
                /\ calls' = calls
                /\ remote' = remote
                /\ active' = {}
                /\ "getReport" \notin { calls'[i] : i \in DOMAIN calls' }
                /\ "results" \notin remote'
                /\ reportArg' = 0 ) ]_vars

C3_Witness ==
    /\ args.mode = "quick"
    /\ err = "AnalysisTimeout"
    /\ lastStatus = "pending"
    /\ elapsed > 180 * 1000
    /\ pc = "exited"
    /\ exitCode = "exit1"

(* C4: getReport is invoked only after the poll has ended with the job     *)
(* reported completed, and with the UUID that submit returned, which is    *)
(* also the UUID that was polled.                                          *)
C4_ReportAfterTerminal ==
    (reportArg # 0 \/ "results" \in remote
        \/ "getReport" \in { calls[i] : i \in DOMAIN calls }) =>
        /\ lastStatus = "completed"
        /\ "awaitAnalysisFinish" \notin active
        /\ "status" \in remote
        /\ uuid \in Uuids
        /\ reportArg = uuid
        /\ pollArg[1] = uuid

C4_Witness ==
    /\ pc = "done"
    /\ reportArg = 2
    /\ "results" \in remote

(* C5: the initial delay and the timeout handed to the poll loop are       *)
(* 20 s and 180 s in quick mode and 300 s and 2400 s in full mode, in      *)
(* milliseconds, and the initial delay is less than the timeout.           *)
C5_PollParamsByMode ==
    pollArg # << >> =>
        /\ \/ /\ args.mode = "quick"
              /\ pollArg[2] = 20000
              /\ pollArg[3] = 180000
           \/ /\ args.mode = "full"
              /\ pollArg[2] = 300000
              /\ pollArg[3] = 2400000
        /\ pollArg[2] < pollArg[3]
        /\ initialDelay = pollArg[2]
        /\ timeout = pollArg[3]

C5_Witness ==
    /\ args.mode = "full"
    /\ pollArg = << 1, 300000, 2400000 >>
    /\ pc = "pollCheck"
    /\ elapsed > 300000

(* C6: once a stage has failed no stage operation and no remote-service    *)
(* operation is invoked any more and the run exits with status 1; no stage *)
(* operation is ever invoked twice.                                        *)
C6_FatalNoRetry ==
    [][ /\ err # "" => ( /\ calls' = calls
                         /\ remote' = remote
                         /\ active' = {}
                         /\ pc' = "exited"
                         /\ exitCode' = "exit1" )
        /\ NoDuplicates(calls') ]_vars

C6_Witness ==
    /\ err = "authenticate"
    /\ pc = "exited"
    /\ exitCode = "exit1"
    /\ calls[Len(calls)] = "authenticate"

(* C7 as stated: in a failed run nothing derived from the findings, raw    *)
(* or reduced, has been written, with or without the debug option.         *)
C7_NoFindingsOutputOnFailure ==
    Failed => Count(output, {"ResponseBody", "NoIssues", "Rendered"}) = 0

(* C7 amended: in a failed run neither the success line nor a rendered     *)
(* block has been written, and without the debug option nothing derived    *)
(* from the findings has been written at all; with the debug option the    *)
(* raw response body is written once, only after getReport has returned.   *)
C7_NoReducedOutputOnFailure ==
    Failed =>
        /\ Count(output, {"NoIssues", "Rendered"}) = 0
        /\ ~args.debug => Count(output, {"ResponseBody"}) = 0
        /\ Count(output, {"ResponseBody"}) > 0 =>
              err \in {"formatIssues", "getFormatter", "formatter"}

C7_Witness ==
    /\ Failed
    /\ ~args.debug
    /\ err = "formatter"
    /\ Len(issues) = 2
    /\ output = << "Error" >>

(* C8: when version detection fails the run aborts: loadSolcVersion is     *)
(* never invoked and no remote-service operation is issued.                *)
C8_VersionFailureAbortsEarly ==
    err = "getSolidityVersion" =>
        /\ calls = << "getSolidityVersion" >>
        /\ loadArg = 0
        /\ solcSnapshot = 0
        /\ remote = {}
        /\ version = 0
        /\ pc \in {"catch", "exited"}
        /\ pc = "exited" => exitCode = "exit1"

C8_Witness ==
    /\ err = "getSolidityVersion"
    /\ fileRead
    /\ pc = "exited"
    /\ exitCode = "exit1"

(* C9: when compilation fails the run aborts: authenticate and submit are  *)
(* never invoked, no remote-service operation is issued and no request     *)
(* data is built.                                                          *)
C9_CompilationFailureIsFatal ==
    err = "getCompiledContracts" =>
        /\ calls[Len(calls)] = "getCompiledContracts"
        /\ ~compiledData
        /\ authArg = << >>
        /\ remote = {}
        /\ data = NoData
        /\ submitted = NoData
        /\ pc \in {"catch", "exited"}
        /\ pc = "exited" => exitCode = "exit1"

C9_Witness ==
    /\ err = "getCompiledContracts"
    /\ Len(sourceList) = 2
    /\ pc = "exited"
    /\ exitCode = "exit1"

(* C10: a run that has terminated has written exactly one outcome: the     *)
(* success line, a rendered block, or a reported failure; the success line *)
(* and the rendered block go with a normal return, a reported failure with *)
(* a non-zero exit, and the outcome is the last thing written.             *)
C10_ExactlyOneOutcome ==
    Terminated =>
        /\ Count(output, {"NoIssues", "Rendered", "Error", "InvalidMode",
                          "InvalidFormat"}) = 1
        /\ output[Len(output)] \in {"NoIssues", "Rendered"} <=> exitCode = "returned"
        /\ output[Len(output)] \in {"Error", "InvalidMode", "InvalidFormat"}
              <=> Failed
        /\ exitCode # "running"

C10_Witness ==
    /\ pc = "done"
    /\ args.debug
    /\ output = << "RequestBody", "ResponseBody", "Rendered" >>


(* C11: in a run that returns normally, an empty reduced list gives the    *)
(* success line and no formatter is selected or applied; a non-empty one   *)
(* gives exactly one application of the formatter of the requested format  *)
(* to the whole reduced list, and one rendered block, with no success line.*)
C11_SuccessLineOrOneRendering ==
    pc = "done" =>
        /\ err = ""
        /\ Len(uniqueIssues) = 0 =>
              /\ formatted = << >>
              /\ output[Len(output)] = "NoIssues"
              /\ Count(output, {"NoIssues"}) = 1
              /\ Count(output, {"Rendered"}) = 0
        /\ Len(uniqueIssues) > 0 =>
              /\ formatted = << << args.format, uniqueIssues >> >>
              /\ output[Len(output)] = "Rendered"
              /\ Count(output, {"Rendered"}) = 1
              /\ Count(output, {"NoIssues"}) = 0

C11_Witness ==
    /\ pc = "done"
    /\ Len(sourceList) = 1
    /\ issues = << >>
    /\ uniqueIssues = << >>
    /\ output = << "NoIssues" >>

(* C12: loadSolcVersion is invoked at most once, exactly once in a run     *)
(* that gets past it, always with the release of the version detected;     *)
(* the version, once detected, never changes; and the snapshot handed to   *)
(* resolveAllSources and to getCompiledContracts is the one it returned.   *)
C12_OneToolchainPerRun ==
    [][ /\ version # 0 => version' = version
        /\ Count(calls', {"loadSolcVersion"}) <= 1
        /\ Count(calls', {"loadSolcVersion"}) = 1 <=> loadArg' # 0
        /\ loadArg' # 0 =>
              /\ version' \in Versions
              /\ loadArg' = releases[version']
        /\ solcSnapshot' # 0 => solcSnapshot' = loadArg'
        /\ resolveArg' # 0 => resolveArg' = solcSnapshot' /\ solcSnapshot' # 0
        /\ compileArg' # 0 => compileArg' = solcSnapshot' /\ compileArg' = resolveArg'
        /\ pc' = "done" => Count(calls', {"loadSolcVersion"}) = 1 ]_vars

C12_Witness ==
    /\ pc = "done"
    /\ version = 2
    /\ loadArg = releases[2]
    /\ compileArg = releases[2]
    /\ resolveArg = releases[2]


(* The positions in raw of the issues with the identity k. *)
Occurrences(raw, k) == { i \in DOMAIN raw : KeyOf(raw[i]) = k }

Min(S) == CHOOSE x \in S : \A y \in S : x <= y

(* C14: the reduced list holds, for every identity of the raw list, the    *)
(* first raw issue of that identity and nothing else, in the order of      *)
(* these first occurrences; reducing the reduced list leaves it as it is.  *)
C14_FirstOccurrencesInOrder ==
    pc \in {"reduced", "reducedTwice"} =>
        /\ \A i \in DOMAIN issues :
              Cardinality({ j \in DOMAIN uniqueIssues :
                              KeyOf(uniqueIssues[j]) = KeyOf(issues[i]) }) = 1
        /\ \A j \in DOMAIN uniqueIssues :
              /\ uniqueIssues[j].pass \in DOMAIN issues
              /\ uniqueIssues[j] = issues[uniqueIssues[j].pass]
              /\ uniqueIssues[j].pass =
                    Min(Occurrences(issues, KeyOf(uniqueIssues[j])))
        /\ \A j1, j2 \in DOMAIN uniqueIssues :
              j1 < j2 => uniqueIssues[j1].pass < uniqueIssues[j2].pass

C14_Witness ==
    /\ pc = "reducedTwice"
    /\ Len(issues) = 3
    /\ KeyOf(issues[1]) = KeyOf(issues[2])
    /\ issues[3].rule = issues[1].rule
    /\ issues[3].message = issues[1].message
    /\ issues[3].location # issues[1].location
    /\ uniqueIssues = << issues[1], issues[3] >>


(* C15: the source list, once resolved, never changes; the compiler input, *)
(* the source list of the request data, the request data submitted and the *)
(* sources attached for mapping the issues are all exactly that list, in   *)
(* its order.                                                              *)
C15_SourceSetFrozen ==
    [][ /\ sourceList # << >> => sourceList' = sourceList
        /\ input # << >> => input' = input
        /\ input' # << >> => input' = sourceList'
        /\ compiledData' => input' = sourceList'
        /\ data'.built => data'.sourceList = sourceList'
        /\ submitted'.built =>
              /\ submitted'.sourceList = sourceList'
              /\ submitted'.sourceList = data'.sourceList
        /\ data'.sources # << >> => data'.sources = sourceList'
        /\ "formatIssues" \in { calls'[i] : i \in DOMAIN calls' } =>
              data'.sources = sourceList' ]_vars

C15_Witness ==
    /\ pc = "done"
    /\ Len(sourceList) = 2
    /\ input = sourceList
    /\ submitted.sourceList = sourceList
    /\ data.sources = sourceList

(* C16: with a mode that is neither quick nor full the run prints the mode *)
(* message and exits with -1 from the mode check: the format is not        *)
(* checked, the file is not read and no operation is invoked; the poll     *)
(* loop is reached with quick or full only.                                *)
C16_InvalidModeExitsFirst ==
    /\ args.mode \notin {"quick", "full"} =>
          /\ pc \in {"checkMode", "exited"}
          /\ pc = "exited" => exitCode = "exit-1" /\ output = << "InvalidMode" >>
          /\ pc = "checkMode" => exitCode = "running" /\ output = << >>
          /\ ~fileRead
          /\ calls = << >>
          /\ active = {}
          /\ remote = {}
          /\ version = 0
          /\ loadArg = 0
          /\ ~compiledData
          /\ authArg = << >>
    /\ (pollArg # << >> \/ pc \in {"pollDelay", "pollCheck"}) =>
          args.mode \in {"quick", "full"}

C16_Witness ==
    /\ args.mode = "deep"
    /\ args.format = "xml"
    /\ pc = "exited"
    /\ exitCode = "exit-1"
    /\ output = << "InvalidMode" >>

(* C17: the trial pair replaces the configured address and password        *)
(* exactly when one of them is empty, nothing else changes them, and the   *)
(* credentials handed to the client are the resulting pair: the configured *)
(* pair with both parts non-empty, or the trial pair.                      *)
C17_ConfiguredOrTrialCredentials ==
    [][ /\ pc = "setup" =>
              << ethAddress', password' >> =
                 IF ethAddress # "" /\ password # ""
                    THEN << ethAddress, password >>
                    ELSE << "0x0000000000000000000000000000000000000000",
                            "trial" >>
        /\ pc # "setup" => << ethAddress', password' >> = << ethAddress, password >>
        /\ authArg # << >> => authArg' = authArg
        /\ authArg' # << >> =>
              /\ authArg' = << ethAddress', password' >>
              /\ authArg'[1] # ""
              /\ authArg'[2] # ""
              /\ authArg' \in
                    { << "0x0000000000000000000000000000000000000000", "trial" >> }
                    \cup ((EnvAddresses \ {""}) \X (EnvPasswords \ {""}))
              /\ pc \notin {"checkMode", "checkFormat", "setup"} ]_vars

C17_Witness ==
    /\ authArg = << TrialAddress, TrialPassword >>
    /\ "authenticate" \in remote
    /\ pc = "done"


(* C13: at most one download of a version is in flight at any time; a      *)
(* caller that asks for a version while its download is in flight awaits   *)
(* that download and starts none; a further download of a version is       *)
(* started only after a failed one; and all callers that received a        *)
(* snapshot of one version received the same snapshot.                     *)
C13_OneDownloadPerVersion ==
    /\ \A v \in Versions :
          /\ cache.inflight[v] <= 1
          /\ cache.inflight[v] =
                Cardinality({ c \in Callers : /\ cache.caller[c].at = "downloading"
                                              /\ cache.caller[c].v = v })
          /\ cache.started[v] <= cache.failed[v] + 1
          /\ cache.started[v] = cache.failed[v] + 1 /\ cache.inflight[v] = 0
                => cache.store[v] > 0
    /\ \A c \in Callers :
          /\ cache.caller[c].at = "waiting" =>
                /\ cache.inflight[cache.caller[c].v] = 1
                /\ cache.store[cache.caller[c].v] = -1
          /\ cache.caller[c].at = "done" =>
                cache.caller[c].got = cache.store[cache.caller[c].v]
    /\ \A c, d \in Callers :
          ( /\ cache.caller[c].at = "done"
            /\ cache.caller[d].at = "done"
            /\ cache.caller[c].v = cache.caller[d].v )
          => cache.caller[c].got = cache.caller[d].got

C13_Witness ==
    /\ \A c \in Callers : cache.caller[c].at = "done" /\ cache.caller[c].v = 1
    /\ cache.started[1] = 1
    /\ cache.failed[1] = 0
    /\ \A c \in Callers : ~cache.caller[c].fromCache

(* C18: the debug option does not influence the pipeline.  Two runs that   *)
(* differ in the debug flag only and get the same responses from their     *)
(* collaborators have invoked the same stage operations with the same      *)
(* arguments, have built and submitted the same request data, and have the  *)
(* same outcome; their console output is the same once the request and     *)
(* response bodies are left out, and the run without debug prints neither.  *)
DebugBodies == {"RequestBody", "ResponseBody"}

NotBody(x) == x \notin DebugBodies

WithoutBodies(out) == SelectSeq(out, NotBody)

C18_DebugDoesNotInfluence ==
    /\ pc = pc2
    /\ calls = calls2
    /\ active = active2
    /\ remote = remote2
    /\ << loadArg, resolveArg, compileArg, authArg, pollArg, reportArg >>
         = << loadArg2, resolveArg2, compileArg2, authArg2, pollArg2, reportArg2 >>
    /\ data = data2
    /\ submitted = submitted2
    /\ formatted = formatted2
    /\ exitCode = exitCode2
    /\ WithoutBodies(output) = WithoutBodies(output2)
    /\ ~args.debug => WithoutBodies(output) = output
    /\ ~args2.debug => WithoutBodies(output2) = output2

C18_Witness ==
    /\ pc = "done"
    /\ pc2 = "done"
    /\ submitted.built
    /\ args.debug
    /\ ~args2.debug
    /\ output = << "RequestBody", "ResponseBody", "Rendered" >>
    /\ output2 = << "Rendered" >>

(* C19: with every enabled step eventually taken, every run terminates:    *)
(* it returns after the success line or the rendered block, or the process *)
(* exits with status 1 or -1.                                              *)
C19_Terminates ==
    <>(Terminated /\ exitCode \in {"returned", "exit1", "exit-1"})

C19_Witness ==
    /\ args.mode = "full"
    /\ err = "AnalysisTimeout"
    /\ elapsed > 2400 * 1000
    /\ pc = "exited"
    /\ exitCode = "exit1"

====
